---- MODULE Spec2Model ----
(***************************************************************************)
(* Model of gen-totp-pic (src/src/main.rs): a batch driver that reads a    *)
(* JSON export of TOTP entries and writes one QR-code PNG per entry.       *)
(*                                                                         *)
(* Strings are sequences of Unicode code points (naturals).                *)
(***************************************************************************)
EXTENDS Integers, Sequences, FiniteSets, TLC

\* ------------------------------------------------------------------------
\* Bounds of the exploration
\* ------------------------------------------------------------------------
\* longest raw string handed to sanitize (besides the two documented examples)
MaxLen == 3
\* largest digits value enumerated
MaxDigits == 9
\* longest entries sequence of an export document
MaxEntries == 3

\* ------------------------------------------------------------------------
\* Program constants
\* ------------------------------------------------------------------------
\* lower and upper limit of digits in build_totp
MinDigits == 6
MaxDigitsAllowed == 8

\* ------------------------------------------------------------------------
\* Characters (code points)
\* ------------------------------------------------------------------------
\* '-', '_' and the '.' of ".png"
chHyphen == 45
chUnderscore == 95
chDot == 46

\* char::is_ascii_alphanumeric
is_ascii_alphanumeric(c) ==
    \/ (c >= 48 /\ c <= 57)
    \/ (c >= 65 /\ c <= 90)
    \/ (c >= 97 /\ c <= 122)

\* sanitize_keep with char::is_alphanumeric in place of is_ascii_alphanumeric
sanitize_keep_unicode(c) ==
    is_ascii_alphanumeric(c) \/ c = 233 \/ c = chHyphen \/ c = chUnderscore

\* the closure of the filter in sanitize
sanitize_keep(c) == is_ascii_alphanumeric(c) \/ c = chHyphen \/ c = chUnderscore

\* fn sanitize(raw: &str) -> String : chars().filter(..).collect()
RECURSIVE sanitize(_)
sanitize(raw) ==
    IF raw = <<>> THEN <<>>
    ELSE (IF sanitize_keep(Head(raw)) THEN <<Head(raw)>> ELSE <<>>)
         \o sanitize(Tail(raw))

\* ------------------------------------------------------------------------
\* Strings used by build_totp
\* ------------------------------------------------------------------------
\* "SHA1", "SHA256", "SHA512"
StrSHA1 == <<83, 72, 65, 49>>
StrSHA256 == <<83, 72, 65, 50, 53, 54>>
StrSHA512 == <<83, 72, 65, 53, 49, 50>>

\* char::to_uppercase on the characters that occur in the model's strings:
\* ASCII lower case, U+00DF (two capitals), U+00E9 and U+017F (long s -> S)
to_uppercase_char(c) ==
    IF c >= 97 /\ c <= 122 THEN <<c - 32>>
    ELSE IF c = 223 THEN <<83, 83>>
    ELSE IF c = 233 THEN <<201>>
    ELSE IF c = 383 THEN <<83>>
    ELSE <<c>>

\* str::to_uppercase
RECURSIVE to_uppercase(_)
to_uppercase(s) ==
    IF s = <<>> THEN <<>>
    ELSE to_uppercase_char(Head(s)) \o to_uppercase(Tail(s))

\* value of one character of the RFC 4648 Base32 alphabet, -1 if it has none
Base32Value(c) ==
    IF c >= 65 /\ c <= 90 THEN c - 65
    ELSE IF c >= 50 /\ c <= 55 THEN c - 24
    ELSE -1

RECURSIVE Pow(_, _)
Pow(b, n) == IF n = 0 THEN 1 ELSE b * Pow(b, n - 1)

\* the quintets of s read as one big-endian number
RECURSIVE QuintetsValue(_)
QuintetsValue(s) ==
    IF s = <<>> THEN 0
    ELSE QuintetsValue(SubSeq(s, 1, Len(s) - 1)) * 32 + Base32Value(s[Len(s)])

\* the n low base-256 digits of v, most significant first
RECURSIVE BytesOf(_, _)
BytesOf(v, n) ==
    IF n = 0 THEN <<>> ELSE BytesOf(v \div 256, n - 1) \o <<v % 256>>

NoBytes == <<>>

\* Secret::Encoded(s).to_bytes(): unpadded RFC 4648 Base32 decoding
Secret_to_bytes(s) ==
    IF \E k \in 1..Len(s) : Base32Value(s[k]) < 0
    THEN [ok |-> FALSE, bytes |-> NoBytes]
    ELSE [ok |-> TRUE,
          bytes |-> BytesOf(QuintetsValue(s) \div Pow(2, (5 * Len(s)) % 8),
                            (5 * Len(s)) \div 8)]

\* enum Algorithm of the TOTP descriptor
Algorithms == {"SHA1", "SHA256", "SHA512"}

NoTotp ==
    [algorithm |-> "none", digits |-> 0, skew |-> 0, step |-> 0,
     secret |-> NoBytes, issuer |-> <<>>, account_name |-> <<>>]

NoErr == [kind |-> "none", value |-> <<>>]

Fail(kind, value) ==
    [ok |-> FALSE, totp |-> NoTotp, err |-> [kind |-> kind, value |-> value]]

\* ParseAlgorithm matching entry.algorithm as written, without to_uppercase()
ParseAlgorithm_caseSensitive(name) ==
    IF name = StrSHA1 THEN "SHA1"
    ELSE IF name = StrSHA256 THEN "SHA256"
    ELSE IF name = StrSHA512 THEN "SHA512"
    ELSE "unsupported"

\* the match on entry.algorithm.to_uppercase()
ParseAlgorithm(name) ==
    LET up == to_uppercase(name) IN
    IF up = StrSHA1 THEN "SHA1"
    ELSE IF up = StrSHA256 THEN "SHA256"
    ELSE IF up = StrSHA512 THEN "SHA512"
    ELSE "unsupported"

\* DigitsRejected with the upper limit off by one
DigitsRejected_offByOne(d) == d < MinDigits \/ d > MaxDigitsAllowed + 1

\* entry.digits < 6 || entry.digits > 8
DigitsRejected(d) == d < MinDigits \/ d > MaxDigitsAllowed

\* fn build_totp(entry: &TotpEntry) -> Result<TOTP>
build_totp(e) ==
    LET algorithm == ParseAlgorithm(e.algorithm)
        secret_bytes == Secret_to_bytes(e.secret)
    IN  IF algorithm = "unsupported"
        THEN Fail("UnsupportedAlgorithm", e.algorithm)
        ELSE IF DigitsRejected(e.digits)
        THEN Fail("InvalidDigits", <<e.digits>>)
        ELSE IF e.period_time = 0
        THEN Fail("InvalidPeriod", <<>>)
        ELSE IF ~secret_bytes.ok
        THEN Fail("InvalidSecretEncoding", e.secret)
        ELSE [ok |-> TRUE,
              totp |-> [algorithm |-> algorithm,
                        digits |-> e.digits,
                        skew |-> 1,
                        step |-> e.period_time,
                        secret |-> secret_bytes.bytes,
                        issuer |-> e.label_name,
                        account_name |-> e.username],
              err |-> NoErr]

\* ------------------------------------------------------------------------
\* URI encoder (the otpauth URI carried by the QR code)
\* ------------------------------------------------------------------------
HexDigit(d) == IF d < 10 THEN 48 + d ELSE 55 + d

\* UTF-8 bytes of one code point below U+0800
Utf8(c) == IF c < 128 THEN <<c>> ELSE <<192 + (c \div 64), 128 + (c % 64)>>

Unreserved(c) ==
    is_ascii_alphanumeric(c) \/ c \in {chHyphen, chUnderscore, chDot, 126}

RECURSIVE PercentBytes(_)
PercentBytes(bs) ==
    IF bs = <<>> THEN <<>>
    ELSE <<37, HexDigit(Head(bs) \div 16), HexDigit(Head(bs) % 16)>>
         \o PercentBytes(Tail(bs))

\* percent-encoding of a URI component
RECURSIVE PercentEncode(_)
PercentEncode(s) ==
    IF s = <<>> THEN <<>>
    ELSE (IF Unreserved(Head(s)) THEN <<Head(s)>> ELSE PercentBytes(Utf8(Head(s))))
         \o PercentEncode(Tail(s))

Base32Char(v) == IF v < 26 THEN 65 + v ELSE 24 + v

RECURSIVE BytesValue(_)
BytesValue(bs) ==
    IF bs = <<>> THEN 0
    ELSE BytesValue(SubSeq(bs, 1, Len(bs) - 1)) * 256 + bs[Len(bs)]

RECURSIVE QuintetChars(_, _)
QuintetChars(v, n) ==
    IF n = 0 THEN <<>>
    ELSE QuintetChars(v \div 32, n - 1) \o <<Base32Char(v % 32)>>

\* unpadded Base32 of the secret bytes
Base32Encode(bs) ==
    LET n == (8 * Len(bs) + 4) \div 5
    IN  QuintetChars(BytesValue(bs) * Pow(2, 5 * n - 8 * Len(bs)), n)

\* decimal rendering of a natural
RECURSIVE Decimal(_)
Decimal(n) ==
    IF n < 10 THEN <<48 + n>> ELSE Decimal(n \div 10) \o <<48 + (n % 10)>>

AlgorithmName(a) ==
    IF a = "SHA1" THEN StrSHA1 ELSE IF a = "SHA256" THEN StrSHA256 ELSE StrSHA512

\* the URI as the sequence of its literal pieces and rendered values
get_url(t) ==
    << "otpauth://totp/", PercentEncode(t.issuer), ":", PercentEncode(t.account_name),
       "?secret=", Base32Encode(t.secret),
       "&issuer=", PercentEncode(t.issuer),
       "&algorithm=", AlgorithmName(t.algorithm),
       "&digits=", Decimal(t.digits),
       "&period=", Decimal(t.step) >>

NoUri == <<>>

\* ------------------------------------------------------------------------
\* Inputs of build_totp
\* ------------------------------------------------------------------------
AlgorithmInputs ==
    { StrSHA1, StrSHA256, StrSHA512,
      <<115, 104, 97, 49>>,             \* "sha1"
      <<83, 104, 97, 50, 53, 54>>,      \* "Sha256"
      <<115, 72, 97, 53, 49, 50>>,      \* "sHa512"
      <<383, 104, 97, 49>>,             \* "sha1" written with U+017F
      <<77, 68, 53>>,                   \* "MD5"
      <<83, 72, 65, 49, 32>>,           \* "SHA1 "
      <<83, 72, 65>>,                   \* "SHA"
      <<>> }

\* "JBSW", "ME", "JB!W", "1A"
SecretInputs == { <<74, 66, 83, 87>>, <<77, 69>>, <<74, 66, 33, 87>>, <<49, 65>> }

PeriodInputs == {0, 1, 30}

DigitsInputs == 0..MaxDigits

\* "Git Hub", "al@x"
StrLabel == <<71, 105, 116, 32, 72, 117, 98>>
StrUser == <<97, 108, 64, 120>>

BuildInputs ==
    [username : {StrUser}, label_name : {StrLabel}, secret : SecretInputs,
     algorithm : AlgorithmInputs, digits : DigitsInputs, period_time : PeriodInputs]

NoEntry ==
    [username |-> <<>>, label_name |-> <<>>, secret |-> <<>>,
     algorithm |-> <<>>, digits |-> 0, period_time |-> 0]

NoResult == [ok |-> FALSE, totp |-> NoTotp, err |-> NoErr]

\* ------------------------------------------------------------------------
\* Inputs of sanitize
\* ------------------------------------------------------------------------
\* "My App!"
StrMyApp == <<77, 121, 32, 65, 112, 112, 33>>
\* "a/b c"
StrABC == <<97, 47, 98, 32, 99>>

\* ' ', '!', '-', '/', '0', 'A', '_', 'a', U+00E9
SanitizeAlphabet == {32, 33, 45, 47, 48, 65, 95, 97, 233}

BoundedSeq(S, n) == UNION {[1..k -> S] : k \in 0..n}

SanitizeInputs == BoundedSeq(SanitizeAlphabet, MaxLen) \cup {StrMyApp, StrABC}

\* ------------------------------------------------------------------------
\* State
\* ------------------------------------------------------------------------
VARIABLES
    raw,        \* sanitize: the argument
    out,        \* sanitize: the returned string
    spc,        \* position of the caller of sanitize
    entry,      \* build_totp: the argument
    res,        \* build_totp: the returned Result
    uri,        \* the URI encoded from the built descriptor
    bpc,        \* position of the caller of build_totp
    pc,         \* main: position in the procedure
    input,      \* main: the input file (readable?, well-formed?, its entries)
    export,     \* main: export.entries once parsed
    dirExists,  \* the output directory "qr" exists
    fs,         \* the files of "qr": file name -> content
    idx,        \* main: index + 1 of the loop
    totp,       \* main: the local totp
    png,        \* main: the local png
    err,        \* main: the error main returned with
    log,        \* history: the operations main performed, in order
    initial     \* history: the output directory as the run found it

pureVars == <<raw, out, spc, entry, res, uri, bpc>>
mainVars == <<pc, input, export, dirExists, fs, idx, totp, png, err, log, initial>>
vars == <<raw, out, spc, entry, res, uri, bpc,
          pc, input, export, dirExists, fs, idx, totp, png, err, log, initial>>

NoContent == [kind |-> "none", uri |-> NoUri]
NoFiles == <<>>

mainIdle ==
    /\ pc = "idle" /\ input = [readable |-> FALSE, wellFormed |-> FALSE, entries |-> <<>>]
    /\ export = <<>> /\ dirExists = FALSE /\ fs = NoFiles /\ idx = 0
    /\ totp = NoTotp /\ png = NoContent /\ err = NoErr /\ log = <<>>
    /\ initial = [dir |-> FALSE, fs |-> NoFiles]

sanitizeIdle == raw = <<>> /\ out = <<>> /\ spc = "idle"
buildIdle == entry = NoEntry /\ res = NoResult /\ uri = NoUri /\ bpc = "idle"

\* ------------------------------------------------------------------------
\* sanitize on its own
\* ------------------------------------------------------------------------
InitSanitize ==
    /\ raw \in SanitizeInputs
    /\ out = <<>>
    /\ spc = "call"
    /\ buildIdle
    /\ mainIdle

\* let s = sanitize(raw)
CallSanitize ==
    /\ spc = "call"
    /\ out' = sanitize(raw)
    /\ spc' = "again"
    /\ UNCHANGED <<raw, entry, res, uri, bpc>>
    /\ UNCHANGED mainVars

\* sanitize applied to its own result
CallSanitizeAgain ==
    /\ spc = "again"
    /\ raw' = out
    /\ out' = sanitize(out)
    /\ spc' = "done"
    /\ UNCHANGED <<entry, res, uri, bpc>>
    /\ UNCHANGED mainVars

NextSanitize == CallSanitize \/ CallSanitizeAgain

SpecSanitize == InitSanitize /\ [][NextSanitize]_vars

\* ------------------------------------------------------------------------
\* build_totp on its own, followed by the URI encoding of its result
\* ------------------------------------------------------------------------
InitBuild ==
    /\ entry \in BuildInputs
    /\ res = NoResult
    /\ uri = NoUri
    /\ bpc = "build"
    /\ sanitizeIdle
    /\ mainIdle

\* let totp = build_totp(entry)
CallBuild ==
    /\ bpc = "build"
    /\ res' = build_totp(entry)
    /\ bpc' = IF res'.ok THEN "encode" ELSE "failed"
    /\ UNCHANGED <<entry, uri, raw, out, spc>>
    /\ UNCHANGED mainVars

\* the URI that totp.get_qr_png() encodes
EncodeUri ==
    /\ bpc = "encode"
    /\ uri' = get_url(res.totp)
    /\ bpc' = "done"
    /\ UNCHANGED <<entry, res, raw, out, spc>>
    /\ UNCHANGED mainVars

NextBuild == CallBuild \/ EncodeUri

SpecBuild == InitBuild /\ [][NextBuild]_vars

\* ------------------------------------------------------------------------
\* main: the batch driver
\* ------------------------------------------------------------------------
\* label_name / username pairs; the first two sanitize to the same file name
\* ("A","u"), ("A!","u@"), ("B","u")
NamePairs == { <<(<<65>>), (<<117>>)>>, <<(<<65, 33>>), (<<117, 64>>)>>, <<(<<66>>), (<<117>>)>> }

MainEntries ==
    { [username |-> p[2], label_name |-> p[1], secret |-> <<74, 66, 83, 87>>,
       algorithm |-> <<115, 104, 97, 49>>, digits |-> d, period_time |-> 30]
      : p \in NamePairs, d \in {6, 9} }

Documents == BoundedSeq(MainEntries, MaxEntries)

\* FileName built from the label alone
FileName_labelOnly(e) == sanitize(e.label_name) \o <<chDot, 112, 110, 103>>

\* format!("{}-{}.png", sanitize(&entry.label_name), sanitize(&entry.username))
FileName(e) ==
    sanitize(e.label_name) \o <<chHyphen>> \o sanitize(e.username)
    \o <<chDot, 112, 110, 103>>

\* the image get_qr_png() draws: a QR symbol carrying the URI
Png(t) == [kind |-> "png", uri |-> get_url(t)]

\* what a write that failed after creating the file leaves behind
Truncated(c) == [kind |-> "truncated", uri |-> c.uri]

\* a file a previous run left in "qr": "A-u.png"
StaleFile == [kind |-> "stale", uri |-> NoUri]
StaleName == <<65, 45, 117, 46, 112, 110, 103>>

Event(op, i, ok, name, content) ==
    [op |-> op, i |-> i, ok |-> ok, name |-> name, content |-> content]

\* return Err(..) out of main
Abort(kind, value) ==
    /\ pc' = "failed"
    /\ err' = [kind |-> kind, value |-> value]

\* export_time and total_entries are only printed (main.rs:46-47) and are
\* left out of the document; the progress lines are left out as well
InitMain ==
    /\ pc = "read"
    /\ input \in
         { [readable |-> FALSE, wellFormed |-> FALSE, entries |-> <<>>],
           [readable |-> TRUE, wellFormed |-> FALSE, entries |-> <<>>] }
         \cup { [readable |-> TRUE, wellFormed |-> TRUE, entries |-> d] : d \in Documents }
    /\ export = <<>>
    /\ dirExists \in BOOLEAN
    /\ fs \in (IF dirExists
               THEN {NoFiles, [n \in {StaleName} |-> StaleFile]}
               ELSE {NoFiles})
    /\ idx = 0
    /\ totp = NoTotp
    /\ png = NoContent
    /\ err = NoErr
    /\ log = <<>>
    /\ initial = [dir |-> dirExists, fs |-> fs]
    /\ sanitizeIdle
    /\ buildIdle

\* fs::read_to_string(input_file)?
ReadFile ==
    /\ pc = "read"
    /\ log' = Append(log, Event("read", 0, input.readable, <<>>, NoContent))
    /\ IF input.readable
       THEN pc' = "parse" /\ UNCHANGED err
       ELSE Abort("InputIOError", <<>>)
    /\ UNCHANGED <<input, export, dirExists, fs, idx, totp, png, initial>>
    /\ UNCHANGED pureVars

\* ParseJson that loads a malformed document as an empty one
ParseJson_partial ==
    /\ pc = "parse"
    /\ log' = Append(log, Event("parse", 0, TRUE, <<>>, NoContent))
    /\ pc' = "check_empty"
    /\ export' = input.entries
    /\ UNCHANGED <<input, dirExists, fs, idx, totp, png, err, initial>>
    /\ UNCHANGED pureVars

\* serde_json::from_str(&data)?
ParseJson ==
    /\ pc = "parse"
    /\ log' = Append(log, Event("parse", 0, input.wellFormed, <<>>, NoContent))
    /\ IF input.wellFormed
       THEN pc' = "check_empty" /\ export' = input.entries /\ UNCHANGED err
       ELSE Abort("SchemaParseError", <<>>) /\ UNCHANGED export
    /\ UNCHANGED <<input, dirExists, fs, idx, totp, png, initial>>
    /\ UNCHANGED pureVars

\* CheckEmpty without the early return
CheckEmpty_noReturn ==
    /\ pc = "check_empty"
    /\ pc' = "mkdir"
    /\ UNCHANGED <<input, export, dirExists, fs, idx, totp, png, err, log, initial>>
    /\ UNCHANGED pureVars

\* if export.entries.is_empty() { return Ok(()) }
CheckEmpty ==
    /\ pc = "check_empty"
    /\ pc' = IF export = <<>> THEN "done" ELSE "mkdir"
    /\ UNCHANGED <<input, export, dirExists, fs, idx, totp, png, err, log, initial>>
    /\ UNCHANGED pureVars

\* fs::create_dir_all("qr")?  and the entry into the loop
CreateDir ==
    /\ pc = "mkdir"
    /\ \E ok \in BOOLEAN :
         /\ log' = Append(log, Event("mkdir", 0, ok, <<>>, NoContent))
         /\ IF ok
            THEN dirExists' = TRUE /\ pc' = "build" /\ idx' = 1 /\ UNCHANGED err
            ELSE Abort("OutputIOError", <<>>) /\ UNCHANGED <<dirExists, idx>>
    /\ UNCHANGED <<input, export, fs, totp, png, initial>>
    /\ UNCHANGED pureVars

\* BuildEntry that skips an entry it cannot build and goes on with the next
BuildEntry_skip ==
    /\ pc = "build"
    /\ LET r == build_totp(export[idx]) IN
         /\ log' = Append(log, Event("build", idx, r.ok, <<>>, NoContent))
         /\ IF r.ok
            THEN totp' = r.totp /\ pc' = "render" /\ UNCHANGED idx
            ELSE /\ UNCHANGED totp
                 /\ IF idx = Len(export)
                    THEN pc' = "done" /\ UNCHANGED idx
                    ELSE pc' = "build" /\ idx' = idx + 1
    /\ UNCHANGED <<input, export, dirExists, fs, png, err, initial>>
    /\ UNCHANGED pureVars

\* let totp = build_totp(entry)?
BuildEntry ==
    /\ pc = "build"
    /\ LET r == build_totp(export[idx]) IN
         /\ log' = Append(log, Event("build", idx, r.ok, <<>>, NoContent))
         /\ IF r.ok
            THEN totp' = r.totp /\ pc' = "render" /\ UNCHANGED err
            ELSE Abort(r.err.kind, r.err.value) /\ UNCHANGED totp
    /\ UNCHANGED <<input, export, dirExists, fs, idx, png, initial>>
    /\ UNCHANGED pureVars

\* RenderEntry that keeps the png of the first entry for the later ones
RenderEntry_reuse ==
    /\ pc = "render"
    /\ \E ok \in BOOLEAN :
         /\ log' = Append(log, Event("render", idx, ok, <<>>, NoContent))
         /\ IF ok
            THEN /\ png' = IF png = NoContent THEN Png(totp) ELSE png
                 /\ pc' = "write" /\ UNCHANGED err
            ELSE Abort("QrEncodingError", <<>>) /\ UNCHANGED png
    /\ UNCHANGED <<input, export, dirExists, fs, idx, totp, initial>>
    /\ UNCHANGED pureVars

\* let png = totp.get_qr_png()?
RenderEntry ==
    /\ pc = "render"
    /\ \E ok \in BOOLEAN :
         /\ log' = Append(log, Event("render", idx, ok, <<>>, NoContent))
         /\ IF ok
            THEN png' = Png(totp) /\ pc' = "write" /\ UNCHANGED err
            ELSE Abort("QrEncodingError", <<>>) /\ UNCHANGED png
    /\ UNCHANGED <<input, export, dirExists, fs, idx, totp, initial>>
    /\ UNCHANGED pureVars

\* WriteEntry that never replaces a file that is already there
WriteEntry_keepExisting ==
    /\ pc = "write"
    /\ LET filename == FileName(export[idx]) IN
       \E outcome \in {"ok", "create_failed", "write_failed"} :
         IF outcome = "ok"
         THEN /\ fs' = fs @@ (filename :> png)
              /\ log' = Append(log, Event("write", idx, TRUE, filename, png))
              /\ IF idx = Len(export)
                 THEN pc' = "done" /\ UNCHANGED idx
                 ELSE pc' = "build" /\ idx' = idx + 1
              /\ UNCHANGED err
         ELSE /\ fs' = IF outcome = "write_failed"
                       THEN (filename :> Truncated(png)) @@ fs
                       ELSE fs
              /\ log' = Append(log, Event("write", idx, FALSE, filename,
                                          IF outcome = "write_failed"
                                          THEN Truncated(png) ELSE NoContent))
              /\ Abort("OutputIOError", filename)
              /\ UNCHANGED idx
    /\ UNCHANGED <<input, export, dirExists, totp, png, initial>>
    /\ UNCHANGED pureVars

\* WriteEntry that removes what the run wrote when a write fails
WriteEntry_rollback ==
    /\ pc = "write"
    /\ LET filename == FileName(export[idx]) IN
       \E outcome \in {"ok", "create_failed", "write_failed"} :
         IF outcome = "ok"
         THEN /\ fs' = (filename :> png) @@ fs
              /\ log' = Append(log, Event("write", idx, TRUE, filename, png))
              /\ IF idx = Len(export)
                 THEN pc' = "done" /\ UNCHANGED idx
                 ELSE pc' = "build" /\ idx' = idx + 1
              /\ UNCHANGED err
         ELSE /\ fs' = initial.fs
              /\ log' = Append(log, Event("write", idx, FALSE, filename, NoContent))
              /\ Abort("OutputIOError", filename)
              /\ UNCHANGED idx
    /\ UNCHANGED <<input, export, dirExists, totp, png, initial>>
    /\ UNCHANGED pureVars

\* fs::write(&path, png)?  and the step of the loop.  fs::write creates or
\* truncates the file and then writes: it fails before the file is touched,
\* or after, leaving a truncated file
WriteEntry ==
    /\ pc = "write"
    /\ LET filename == FileName(export[idx]) IN
       \E outcome \in {"ok", "create_failed", "write_failed"} :
         IF outcome = "ok"
         THEN /\ fs' = (filename :> png) @@ fs
              /\ log' = Append(log, Event("write", idx, TRUE, filename, png))
              /\ IF idx = Len(export)
                 THEN pc' = "done" /\ UNCHANGED idx
                 ELSE pc' = "build" /\ idx' = idx + 1
              /\ UNCHANGED err
         ELSE /\ fs' = IF outcome = "write_failed"
                       THEN (filename :> Truncated(png)) @@ fs
                       ELSE fs
              /\ log' = Append(log, Event("write", idx, FALSE, filename,
                                          IF outcome = "write_failed"
                                          THEN Truncated(png) ELSE NoContent))
              /\ Abort("OutputIOError", filename)
              /\ UNCHANGED idx
    /\ UNCHANGED <<input, export, dirExists, totp, png, initial>>
    /\ UNCHANGED pureVars

Next ==
    \/ ReadFile
    \/ ParseJson
    \/ CheckEmpty
    \/ CreateDir
    \/ BuildEntry
    \/ RenderEntry
    \/ WriteEntry

Spec == InitMain /\ [][Next]_vars

\* ------------------------------------------------------------------------
\* Properties of sanitize (SpecSanitize)
\* ------------------------------------------------------------------------
\* ASCII letters, ASCII digits, '-' and '_'
AllowedChars == (48..57) \cup (65..90) \cup (97..122) \cup {45, 95}

IsAllowed(c) == c \in AllowedChars

\* "MyApp", "abc"
StrMyAppClean == <<77, 121, 65, 112, 112>>
StrABCClean == <<97, 98, 99>>

\* C9: sanitize(raw) is raw with every character other than an ASCII letter,
\* an ASCII digit, '-' or '_' removed and the rest in their order; its result
\* holds only such characters, sanitizing again changes nothing, and
\* "My App!" gives "MyApp", "a/b c" gives "abc".
C9_SanitizeFilters ==
    /\ spc = "again" =>
         /\ out = SelectSeq(raw, IsAllowed)
         /\ \A k \in 1..Len(out) : out[k] \in AllowedChars
         /\ raw = StrMyApp => out = StrMyAppClean
         /\ raw = StrABC => out = StrABCClean
    /\ spc = "done" => out = raw /\ \A k \in 1..Len(out) : out[k] \in AllowedChars

\* sanitize has removed '!', ' ' from "My App!", and a non-ASCII letter elsewhere
C9_Witness ==
    \/ spc = "again" /\ raw = StrMyApp /\ out = StrMyAppClean
    \/ spc = "again" /\ raw = <<97, 233, 95>> /\ out = <<97, 95>>

\* ------------------------------------------------------------------------
\* Properties of build_totp (SpecBuild)
\* ------------------------------------------------------------------------
\* s is name in some casing of its ASCII letters
IsCasingOf(s, name) ==
    /\ Len(s) = Len(name)
    /\ \A k \in 1..Len(s) :
         \/ s[k] = name[k]
         \/ name[k] >= 65 /\ name[k] <= 90 /\ s[k] = name[k] + 32

KnownNames == {StrSHA1, StrSHA256, StrSHA512}

\* characters of the RFC 4648 Base32 alphabet: A-Z, 2-7
Base32Alphabet == (65..90) \cup (50..55)

ValidEntry(e) ==
    /\ e.digits \in {6, 7, 8}
    /\ e.period_time > 0
    /\ \A k \in 1..Len(e.secret) : e.secret[k] \in Base32Alphabet
    /\ \E n \in KnownNames : IsCasingOf(e.algorithm, n)

\* the value that follows key in the URI; <<>> when the key is absent
Field(u, key) ==
    IF \E k \in 1..(Len(u) - 1) : u[k] = key
    THEN u[(CHOOSE k \in 1..(Len(u) - 1) : u[k] = key) + 1]
    ELSE <<>>

RECURSIVE ParseDecimal(_)
ParseDecimal(s) ==
    IF s = <<>> THEN 0
    ELSE 10 * ParseDecimal(SubSeq(s, 1, Len(s) - 1)) + (s[Len(s)] - 48)

DigitsOutside(e) == e.digits < 6 \/ e.digits > 8

\* C7 as stated: whatever the other fields, digits outside [6,8] makes
\* build_totp fail with InvalidDigits carrying the value.
C7_AlwaysInvalidDigits ==
    (bpc # "build" /\ DigitsOutside(entry)) =>
        /\ ~res.ok
        /\ res.err = [kind |-> "InvalidDigits", value |-> <<entry.digits>>]

\* C7 (amended): digits outside [6,8] makes build_totp fail whatever the
\* other fields; the failure is InvalidDigits carrying the value when the
\* algorithm upper-cases to SHA1, SHA256 or SHA512, and UnsupportedAlgorithm
\* carrying the algorithm otherwise, since the algorithm is matched first.
C7_InvalidDigitsAfterAlgorithm ==
    (bpc # "build" /\ DigitsOutside(entry)) =>
        /\ ~res.ok
        /\ bpc = "failed"
        /\ res.err =
             IF to_uppercase(entry.algorithm) \in KnownNames
             THEN [kind |-> "InvalidDigits", value |-> <<entry.digits>>]
             ELSE [kind |-> "UnsupportedAlgorithm", value |-> entry.algorithm]

\* digits 9 with a supported algorithm, an invalid secret and period 0:
\* rejected for its digits
C7_Witness ==
    /\ bpc = "failed"
    /\ entry.digits = 9
    /\ entry.period_time = 0
    /\ entry.secret = <<74, 66, 33, 87>>
    /\ entry.algorithm = <<115, 104, 97, 49>>
    /\ res.err = [kind |-> "InvalidDigits", value |-> <<9>>]

\* ------------------------------------------------------------------------
\* Properties of the batch driver (Spec)
\* ------------------------------------------------------------------------
EntryOps == {"build", "render", "write"}

LogIndices == 1..Len(log)

\* the name and the image an entry stands for, computed from the entry alone
ExpectedName(e) ==
    SelectSeq(e.label_name, IsAllowed) \o <<45>> \o SelectSeq(e.username, IsAllowed)
    \o <<46, 112, 110, 103>>

ExpectedPng(e) == [kind |-> "png", uri |-> get_url(build_totp(e).totp)]

\* the names of the files the run wrote completely
WrittenNames == { log[k].name : k \in {j \in LogIndices : log[j].op = "write" /\ log[j].ok} }

\* entry i was written completely
Written(i) == \E k \in LogIndices : log[k].op = "write" /\ log[k].ok /\ log[k].i = i

\* the last entry among the first n that maps to the file name of entry i
LastWithName(i, n) ==
    CHOOSE j \in 1..n :
        /\ ExpectedName(export[j]) = ExpectedName(export[i])
        /\ \A m \in (j + 1)..n : ExpectedName(export[m]) # ExpectedName(export[i])

\* the output directory after the first n entries were written in order
RECURSIVE FilesAfter(_)
FilesAfter(n) ==
    IF n = 0 THEN initial.fs
    ELSE (ExpectedName(export[n]) :> ExpectedPng(export[n])) @@ FilesAfter(n - 1)

\* C2: a failure on one entry (build, render or write) ends the run at once in
\* the failed state: it is the last operation performed, no operation on a
\* later entry is ever performed, and the failed operation is not repeated.
C2_AbortsOnFirstFailure ==
    \A k \in LogIndices :
        (log[k].op \in EntryOps /\ ~log[k].ok) =>
            /\ pc = "failed"
            /\ err # NoErr
            /\ k = Len(log)
            /\ ~ENABLED Next
            /\ \A j \in LogIndices : log[j].i <= log[k].i
            /\ \A j \in 1..(k - 1) : ~(log[j].op = log[k].op /\ log[j].i = log[k].i)

\* the second of three entries failed to build after the first was written
C2_Witness ==
    /\ pc = "failed"
    /\ Len(export) = 3
    /\ Written(1)
    /\ log[Len(log)].op = "build" /\ log[Len(log)].i = 2 /\ ~log[Len(log)].ok
    /\ build_totp(export[3]).ok

\* C5: an export whose entries sequence is empty ends successfully: no error,
\* no entry built, nothing written.
C5_EmptyIsSuccess ==
    (input.readable /\ input.wellFormed /\ input.entries = <<>>) =>
        /\ pc \in {"read", "parse", "check_empty", "done"}
        /\ err = NoErr
        /\ fs = initial.fs
        /\ \A k \in LogIndices : log[k].op \notin EntryOps
        /\ pc = "check_empty" => ENABLED CheckEmpty

\* the run over an empty entries sequence has ended
C5_Witness ==
    /\ pc = "done"
    /\ input.wellFormed
    /\ export = <<>>
    /\ Len(log) = 2

\* C6: an unreadable input file or a document of the wrong shape ends the run
\* in the failed state before any processing: the output directory is not
\* created, no entry is built and no file is written.
C6_FatalBeforeProcessing ==
    /\ (~input.readable /\ pc # "read") =>
          pc = "failed" /\ err.kind = "InputIOError"
    /\ (input.readable /\ ~input.wellFormed /\ pc \notin {"read", "parse"}) =>
          pc = "failed" /\ err.kind = "SchemaParseError"
    /\ ~(input.readable /\ input.wellFormed) =>
          /\ dirExists = initial.dir
          /\ fs = initial.fs
          /\ export = <<>>
          /\ \A k \in LogIndices : log[k].op \in {"read", "parse"}

\* a malformed document was rejected with no output directory around
C6_Witness ==
    /\ pc = "failed"
    /\ err.kind = "SchemaParseError"
    /\ input.readable
    /\ ~dirExists

\* C8: when entries share their sanitized label_name and username, a
\* successful run leaves under that name the PNG of the last of them.
C8_LastWriteWins ==
    pc = "done" =>
        \A i \in 1..Len(export) : \A j \in (i + 1)..Len(export) :
            ( /\ SelectSeq(export[i].label_name, IsAllowed)
                   = SelectSeq(export[j].label_name, IsAllowed)
              /\ SelectSeq(export[i].username, IsAllowed)
                   = SelectSeq(export[j].username, IsAllowed) ) =>
                /\ err = NoErr
                /\ ExpectedName(export[i]) \in DOMAIN fs
                /\ fs[ExpectedName(export[i])]
                     = ExpectedPng(export[LastWithName(i, Len(export))])

\* ("A","u") then ("A!","u@"): the run succeeded and A-u.png is the second one's
C8_Witness ==
    /\ pc = "done"
    /\ Len(export) = 2
    /\ export[1].label_name = <<65>> /\ export[2].label_name = <<65, 33>>
    /\ fs[StaleName] = ExpectedPng(export[2])
    /\ fs[StaleName] # ExpectedPng(export[1])

\* C4 as stated: a successful run leaves as many distinct files as the
\* document has entries.
C4_OneFilePerEntry ==
    pc = "done" => Cardinality(WrittenNames) = Len(export)

\* C4 (amended): a successful run writes every entry under
\* {sanitize(label_name)}-{sanitize(username)}.png; the distinct files it
\* wrote are those names, all present, as many as the entries when the names
\* differ pairwise and fewer when entries share a name.
C4_OneFilePerName ==
    pc = "done" =>
        /\ WrittenNames = { ExpectedName(export[i]) : i \in 1..Len(export) }
        /\ \A i \in 1..Len(export) : Written(i)
        /\ \A n \in WrittenNames : n \in DOMAIN fs /\ fs[n].kind = "png"
        /\ Cardinality(WrittenNames) <= Len(export)
        /\ (Cardinality(WrittenNames) = Len(export)) <=>
             (\A i, j \in 1..Len(export) :
                 i # j => ExpectedName(export[i]) # ExpectedName(export[j]))

\* three entries, two of them under one name: two files
C4_Witness ==
    /\ pc = "done"
    /\ Len(export) = 3
    /\ Cardinality(WrittenNames) = 2

\* the entry the run stands at: the entries before it are behind the run
Position ==
    IF pc \in {"build", "render", "write"} THEN idx
    ELSE IF pc = "done" THEN Len(export) + 1
    ELSE IF pc = "failed" /\ idx >= 1 THEN idx
    ELSE 1

\* the operations of the run in order: read, parse, create the directory,
\* then build, render and write of each entry before the current one
OrderedLog ==
    \A j \in 1..(Position - 1) : \A s \in 1..3 :
        /\ Len(log) >= 3 * j + 3
        /\ log[3] = Event("mkdir", 0, TRUE, <<>>, NoContent)
        /\ log[3 * j + s].i = j
        /\ log[3 * j + s].ok
        /\ log[3 * j + s].op = <<"build", "render", "write">>[s]

LastWriteFailed ==
    /\ pc = "failed"
    /\ Len(log) > 0
    /\ log[Len(log)].op = "write"

\* C10 as stated: at every point the files of the output directory are
\* exactly those of the entries before the current one.
C10_ExactlyEarlierFiles ==
    /\ OrderedLog
    /\ fs = FilesAfter(Position - 1)
    /\ fs # initial.fs => dirExists

\* C10 (amended): entries are handled in order without rollback; at every
\* point the complete files are those of the entries before the current one
\* and the directory was created before the first, except that a failed
\* write of entry k may leave a truncated file under k's name, in place of
\* the file of an earlier entry of that name.
C10_EarlierFilesButTruncation ==
    /\ OrderedLog
    /\ fs # initial.fs => dirExists /\ Len(log) >= 3 /\ log[3].op = "mkdir"
    /\ DOMAIN FilesAfter(Position - 1) \subseteq DOMAIN fs
    /\ IF LastWriteFailed /\ fs # FilesAfter(Position - 1)
       THEN /\ DOMAIN fs = DOMAIN FilesAfter(Position - 1) \cup {ExpectedName(export[idx])}
            /\ \A n \in DOMAIN fs :
                 IF n = ExpectedName(export[idx])
                 THEN fs[n] = [kind |-> "truncated", uri |-> ExpectedPng(export[idx]).uri]
                 ELSE fs[n] = FilesAfter(Position - 1)[n]
       ELSE fs = FilesAfter(Position - 1)

\* the run aborted on its third entry with the files of the first two in place
C10_Witness ==
    /\ pc = "failed"
    /\ idx = 3
    /\ log[Len(log)].op = "render"
    /\ ExpectedName(export[1]) # ExpectedName(export[2])
    /\ fs = FilesAfter(2)
    /\ Cardinality(DOMAIN fs) = 2

\* entry i did not fail by itself: it can be built, and neither its rendering
\* nor its write failed
OwnSuccess(i) ==
    /\ build_totp(export[i]).ok
    /\ \A k \in LogIndices : log[k].i = i => log[k].ok

\* C3 as stated: whether an entry's PNG ends up written, and with what
\* content, does not depend on the other entries: whenever a run that got
\* its output directory has ended, each entry that did not fail by itself has
\* its PNG in the directory.
C3_EntriesIndependent ==
    (pc \in {"done", "failed"} /\ Len(log) >= 3 /\ log[3].ok) =>
        \A i \in 1..Len(export) :
            OwnSuccess(i) =>
                /\ ExpectedName(export[i]) \in DOMAIN fs
                /\ fs[ExpectedName(export[i])] = ExpectedPng(export[i])

\* C3 (amended): what is written for an entry (its file name and its PNG)
\* depends on that entry alone, but whether it is written depends on the
\* entries before it, all of which must have been written, and whether its
\* file is still its own at the end depends on the entries after it, the last
\* entry of a name being the one that stays.
C3_ContentIndependentOnly ==
    /\ \A k \in LogIndices :
         (log[k].op = "write" /\ log[k].ok) =>
             /\ log[k].name = ExpectedName(export[log[k].i])
             /\ log[k].content = ExpectedPng(export[log[k].i])
             /\ \A j \in 1..log[k].i : build_totp(export[j]).ok /\ Written(j)
    /\ pc \in {"done", "failed"} =>
         \A i \in 1..Len(export) :
             (Written(i) /\ ~LastWriteFailed) =>
                 (fs[ExpectedName(export[i])] = ExpectedPng(export[i]))
                     <=> (ExpectedPng(export[LastWithName(i, Position - 1)])
                            = ExpectedPng(export[i]))

\* a valid third entry was never written because the second one failed
C3_Witness ==
    /\ pc = "failed"
    /\ Len(export) = 3
    /\ Written(1)
    /\ ~build_totp(export[2]).ok
    /\ build_totp(export[3]).ok
    /\ ~Written(3)

====
